---- MODULE Spec2Model ----
(***************************************************************************)
(* Pyfinance: a declarative watchlist reconciled into a DuckDB table       *)
(* (core/watchlist.py), hourly price observations appended to a hive       *)
(* partitioned Parquet lake (jobs/fetch_daily.py), a view and a            *)
(* materialized copy over the lake (jobs/build_views.py), and the zone     *)
(* analytics queries (app/dashboard.py, app/alerts.py).                    *)
(***************************************************************************)
EXTENDS Integers, Sequences, FiniteSets, TLC

(***************************************************************************)
(* Bounds of the model.                                                    *)
(***************************************************************************)
\* Longest "watchlist:" list of a YAML file.
MaxItems == 2
\* Observation timestamps are 1..MaxTime (hours).
MaxTime == 3

(***************************************************************************)
(* Value domains.                                                          *)
(***************************************************************************)
Tickers == {"A", "B"}
Times == 1..MaxTime
\* pd.to_datetime(Datetime).dt.date: two hourly timestamps fall on one date.
DateOf(ts) == (ts + 1) \div 2
Dates == { DateOf(ts) : ts \in Times }
Partitions == Tickers \X Dates
PriceFields == {"Open", "Close"}
ZoneLows == {100}
ZoneHighs == {110, 90}
Closes == {95, 105}

\* A YAML scalar as yaml.safe_load returns it: a number, or a string.
YNum(n) == [kind |-> "num", v |-> n]
YStr == [kind |-> "str", v |-> 0]

\* Records of the "watchlist:" list. A record may lack keys.
FullRecords ==
    { [ticker |-> t, zone_low |-> YNum(lo), zone_high |-> YNum(hi),
       notify_on_cross |-> n, cooloff_days |-> 1] :
        t \in Tickers, lo \in ZoneLows, hi \in ZoneHighs, n \in BOOLEAN }
NoTickerRecord ==
    [zone_low |-> YNum(100), zone_high |-> YNum(110),
     notify_on_cross |-> TRUE, cooloff_days |-> 1]
BadZoneRecord ==
    [ticker |-> "A", zone_low |-> YStr, zone_high |-> YNum(110),
     notify_on_cross |-> TRUE, cooloff_days |-> 1]
DefaultsRecord ==
    [ticker |-> "B", zone_low |-> YNum(100), zone_high |-> YNum(110)]
RawRecords == FullRecords \cup {NoTickerRecord, BadZoneRecord, DefaultsRecord}

SeqsUpTo(S, n) == UNION { [1..k -> S] : k \in 0..n }

\* The configuration source: the file may be absent; else it lists records,
\* here records among R.
ConfigsOver(R) ==
    { [exists |-> FALSE, watchlist |-> << >>] } \cup
    { [exists |-> TRUE, watchlist |-> w] : w \in SeqsUpTo(R, MaxItems) }
Configs == ConfigsOver(RawRecords)

(***************************************************************************)
(* core/watchlist.py                                                       *)
(***************************************************************************)
\* dict.get(key, default)
Get(r, k, d) == IF k \in DOMAIN r THEN r[k] ELSE d

RecordError_ZoneUnchecked(r) ==
    IF "ticker" \notin DOMAIN r THEN "KeyError" ELSE ""

\* The exception WatchItem(...) raises on record r, "" when it raises none.
\* Keyword arguments are evaluated in order: ticker, zone_low, zone_high.
RecordError(r) ==
    IF "ticker" \notin DOMAIN r THEN "KeyError"
    ELSE IF "zone_low" \notin DOMAIN r THEN "KeyError"
    ELSE IF r.zone_low.kind # "num" THEN "ValueError"
    ELSE IF "zone_high" \notin DOMAIN r THEN "KeyError"
    ELSE IF r.zone_high.kind # "num" THEN "ValueError"
    ELSE ""

WatchItem(r) ==
    [ticker |-> r.ticker,
     zone_low |-> r.zone_low.v,
     zone_high |-> r.zone_high.v,
     notify_on_cross |-> Get(r, "notify_on_cross", TRUE),
     cooloff_days |-> Get(r, "cooloff_days", 1)]

\* load_watchlist_yaml: the items, or the first exception raised.
load_watchlist_yaml(cfg) ==
    IF ~cfg.exists THEN [err |-> "FileNotFoundError", items |-> << >>]
    ELSE LET w == cfg.watchlist
             bad == { i \in DOMAIN w : RecordError(w[i]) # "" }
         IN IF bad # {}
            THEN [err |-> RecordError(w[CHOOSE i \in bad : \A j \in bad : i <= j]),
                  items |-> << >>]
            ELSE [err |-> "", items |-> [i \in DOMAIN w |-> WatchItem(w[i])]]

TickerSet(rows) == { r.ticker : r \in rows }
SeqRange(s) == { s[i] : i \in DOMAIN s }
Max(S) == CHOOSE x \in S : \A y \in S : y <= x

\* INSERT INTO watchlist SELECT ... FROM tmp_watchlist GROUP BY ticker:
\* the tables the statement can produce. ANY_VALUE picks the value of some
\* row of the group, each column on its own.
GroupRows(tmp, t) == { r \in SeqRange(tmp) : r.ticker = t }
MergedRows(tmp, t) ==
    { [ticker |-> t,
       zone_low |-> lo,
       zone_high |-> hi,
       notify_on_cross |-> (\E r \in GroupRows(tmp, t) : r.notify_on_cross),
       cooloff_days |-> Max({ r.cooloff_days : r \in GroupRows(tmp, t) })] :
        lo \in { r.zone_low : r \in GroupRows(tmp, t) },
        hi \in { r.zone_high : r \in GroupRows(tmp, t) } }
GroupByTicker(tmp) ==
    LET ts == TickerSet(SeqRange(tmp))
    IN { SeqRange(f) : f \in { g \in [ts -> UNION { MergedRows(tmp, t) : t \in ts }] :
                                 \A t \in ts : g[t] \in MergedRows(tmp, t) } }

VARIABLES
    watchlist,       \* the committed rows of table watchlist (what a reader sees)
    sync_pc,         \* the statement sync_watchlist_replace executes next
    sync_config,     \* the configuration source as the running sync finds it
    sync_items,      \* items, as load_watchlist_yaml returned them
    tmp_watchlist,   \* the connection's TEMP table
    txn_open,        \* BEGIN TRANSACTION was executed and not yet committed
    txn_watchlist,   \* the rows of watchlist as the open transaction sees them
    sync_status,     \* how the last run ended: "", "done", "error", "aborted"
    sync_declared,   \* the distinct tickers the last loaded configuration declares
    yaml_records,    \* the records data/watchlist.yaml lists from, as it is edited
    schema           \* table watchlist exists in the database (ensure_schema ran)

VARIABLES
    market,          \* what the data provider quotes: ticker -> hour -> Close
    lake,            \* data/prices: (Ticker, Date) -> rows of part-0.parquet, {} if no file
    job_pc,          \* the statement fetch_daily.main executes next
    job_df,          \* df, as fetch_ticker returned it
    job_nodata,      \* fetch_ticker gave its "no data" signal in this run
    job_pending,     \* the partitions write_dataset has still to write a file for
    job_status,      \* how the last run of the job ended: "", "ok", or the exception
    dash,            \* what load_dashboard_rows returned to the last call that
                     \* ended on the current tables
    dash_pc,         \* where the dashboard's script is: "idle", "query", "history"
    dash_files,      \* parquet_files, the listing load_dashboard_rows took at line 23
    dash_leak,       \* a connection the dashboard left open is not yet collected
    list_cache,      \* st.cache_data entry of list_parquet_files
    rows_cache,      \* st.cache_data entry of load_dashboard_rows
    view_def,        \* how v_prices is defined: "none", "parquet" or "empty"
    prices_cols,     \* the columns table prices was created with: "none", "lake", "fixed"
    prices,          \* the committed rows of table prices
    bv_pc,           \* the statement build_views.main executes next
    bv_status,       \* how the last run of build_views.main ended
    bv_refreshed,    \* the rows of v_prices the last completed reload read
    alerts_pc,       \* where alerts.main is: "idle" or "query"
    alerts_out       \* what alerts.main got from its last query on the current tables

sync_vars == << watchlist, sync_pc, sync_config, sync_items, tmp_watchlist, txn_open,
                txn_watchlist, sync_status, sync_declared >>
job_vars == << market, lake, job_pc, job_df, job_nodata, job_pending, job_status >>
view_vars == << view_def, prices_cols, prices, bv_pc, bv_status, bv_refreshed >>
out_vars == << dash, alerts_out >>
cache_vars == << list_cache, rows_cache >>
run_vars == << dash_pc, dash_files, dash_leak, alerts_pc >>
vars == << sync_vars, job_vars, view_vars, out_vars, cache_vars, run_vars, yaml_records,
          schema >>

NoConfig == [exists |-> FALSE, watchlist |-> << >>]

NoSyncRun ==
    /\ sync_pc = "idle"
    /\ sync_config = NoConfig
    /\ sync_items = << >>
    /\ tmp_watchlist = << >>
    /\ txn_open = FALSE
    /\ txn_watchlist = {}
    /\ sync_status = ""
    /\ sync_declared = {}

\* A database no program has opened yet: no table, no row.
SyncInit == watchlist = {} /\ schema = FALSE /\ NoSyncRun

NoRows == [returned |-> FALSE, err |-> "", rows |-> {}]
NoFrame == [returned |-> FALSE, cached |-> FALSE, err |-> "", rows |-> {}]
NoCache == [valid |-> FALSE, value |-> {}]

\* connect, lines 23-25: duckdb.connect opens DB_PATH read-write and locks the
\* file, and raises an IOException while another process has it open. The
\* fetch job has it open during sync_watchlist_replace (lines 76-126) and
\* get_tickers (lines 129-132), build_views.main from its line 21 to its line
\* 53, alerts.main from its line 24 to its line 30, the dashboard from line
\* 24 to line 102 and from line 121 to line 125 of dashboard.py, and for as
\* long as a connection it did not close is not collected.
DbHolders ==
    (IF sync_pc # "idle" \/ job_pc = "tickers" THEN {"fetch_daily"} ELSE {})
        \cup (IF bv_pc # "idle" THEN {"build_views"} ELSE {})
        \cup (IF dash_pc # "idle" \/ dash_leak THEN {"dashboard"} ELSE {})
        \cup (IF alerts_pc # "idle" THEN {"alerts"} ELSE {})
\* TRUE iff process proc gets its connection.
connect(proc) == DbHolders \subseteq {proc}

\* sync_watchlist_replace returns to main (fetch_daily.py line 60) when the
\* job called it, or raises through it, which ends the job.
SyncReturns(raised) ==
    /\ job_pc' = IF job_pc # "sync" THEN job_pc
                 ELSE IF raised = "" THEN "get_tickers" ELSE "idle"
    /\ job_status' = IF job_pc # "sync" THEN job_status ELSE raised
    /\ UNCHANGED << market, lake, job_df, job_nodata, job_pending >>

\* The connection is gone: its TEMP table and open transaction with it.
ConnectionClosed ==
    /\ sync_pc' = "idle"
    /\ sync_config' = NoConfig
    /\ sync_items' = << >>
    /\ tmp_watchlist' = << >>
    /\ txn_open' = FALSE
    /\ txn_watchlist' = {}

\* Lines 76-77: connect, ensure_schema. CREATE TABLE IF NOT EXISTS creates
\* the table where it is missing, committed at once, and changes no row. The
\* run reads the YAML file as it is now.
SyncStart ==
    /\ sync_pc = "idle"
    /\ IF connect("fetch_daily")
       THEN /\ sync_config' \in ConfigsOver(yaml_records)
            /\ sync_pc' = "load"
            /\ sync_status' = ""
            /\ sync_declared' = {}
       ELSE /\ sync_status' = "IOException"
            /\ UNCHANGED << sync_config, sync_pc, sync_declared >>
    /\ schema' = (schema \/ connect("fetch_daily"))
    /\ UNCHANGED << watchlist, sync_items, tmp_watchlist, txn_open, txn_watchlist >>

\* A run of sync_watchlist_replace on its own.
SyncConnect ==
    /\ job_pc = "idle"
    /\ SyncStart
    /\ UNCHANGED << job_vars, view_vars, out_vars, cache_vars, run_vars, yaml_records >>

\* Line 78: items = load_watchlist_yaml(). Its exception ends the run.
SyncLoad ==
    /\ sync_pc = "load"
    /\ LET res == load_watchlist_yaml(sync_config)
       IN IF res.err # ""
          THEN /\ ConnectionClosed
               /\ sync_status' = "error"
               /\ SyncReturns(res.err)
               /\ UNCHANGED << watchlist, sync_declared >>
          ELSE /\ sync_pc' = "create_tmp"
               /\ sync_items' = res.items
               /\ sync_declared' = TickerSet(SeqRange(res.items))
               /\ UNCHANGED << watchlist, sync_config, tmp_watchlist, txn_open,
                               txn_watchlist, sync_status >>
               /\ UNCHANGED job_vars
    /\ UNCHANGED << view_vars, out_vars, cache_vars, run_vars, yaml_records, schema >>

\* Lines 81-85: CREATE TEMP TABLE tmp_watchlist AS SELECT * FROM watchlist WHERE 1=0.
SyncCreateTemp ==
    /\ sync_pc = "create_tmp"
    /\ tmp_watchlist' = << >>
    /\ sync_pc' = IF Len(sync_items) = 0 THEN "begin" ELSE "insert_tmp"
    /\ UNCHANGED << watchlist, sync_config, sync_items, txn_open, txn_watchlist,
                    sync_status, sync_declared >>
    /\ UNCHANGED << job_vars, view_vars, out_vars, cache_vars, run_vars, yaml_records,
                    schema >>

\* Lines 87-103: one INSERT INTO tmp_watchlist per item, in order. The TEMP
\* table has no primary key (CREATE TABLE AS copies none): duplicates enter.
SyncInsertTmp ==
    /\ sync_pc = "insert_tmp"
    /\ tmp_watchlist' = Append(tmp_watchlist, sync_items[Len(tmp_watchlist) + 1])
    /\ sync_pc' = IF Len(tmp_watchlist') = Len(sync_items) THEN "begin" ELSE "insert_tmp"
    /\ UNCHANGED << watchlist, sync_config, sync_items, txn_open, txn_watchlist,
                    sync_status, sync_declared >>
    /\ UNCHANGED << job_vars, view_vars, out_vars, cache_vars, run_vars, yaml_records,
                    schema >>

SyncBegin_Autocommit ==
    /\ sync_pc = "begin"
    /\ sync_pc' = "delete"
    /\ UNCHANGED << watchlist, sync_config, sync_items, tmp_watchlist, txn_open,
                    txn_watchlist, sync_status, sync_declared >>
    /\ UNCHANGED << job_vars, view_vars, out_vars, cache_vars, run_vars, yaml_records,
                    schema >>

\* Line 106: BEGIN TRANSACTION.
SyncBegin ==
    /\ sync_pc = "begin"
    /\ txn_open' = TRUE
    /\ txn_watchlist' = watchlist
    /\ sync_pc' = "delete"
    /\ UNCHANGED << watchlist, sync_config, sync_items, tmp_watchlist, sync_status,
                    sync_declared >>
    /\ UNCHANGED << job_vars, view_vars, out_vars, cache_vars, run_vars, yaml_records,
                    schema >>

\* A statement on table watchlist: inside the open transaction it changes the
\* transaction's rows; outside one it is committed as it completes.
ExecOnWatchlist(rows) ==
    IF txn_open
    THEN /\ txn_watchlist' = rows
         /\ UNCHANGED watchlist
    ELSE /\ watchlist' = rows
         /\ UNCHANGED txn_watchlist

SyncDelete_Skipped ==
    /\ sync_pc = "delete"
    /\ sync_pc' = "insert"
    /\ UNCHANGED << watchlist, sync_config, sync_items, tmp_watchlist, txn_open,
                    txn_watchlist, sync_status, sync_declared >>
    /\ UNCHANGED << job_vars, view_vars, out_vars, cache_vars, run_vars, yaml_records,
                    schema >>

\* Line 107: DELETE FROM watchlist.
SyncDelete ==
    /\ sync_pc = "delete"
    /\ ExecOnWatchlist({})
    /\ sync_pc' = "insert"
    /\ UNCHANGED << sync_config, sync_items, tmp_watchlist, txn_open, sync_status,
                    sync_declared >>
    /\ UNCHANGED << job_vars, view_vars, out_vars, cache_vars, run_vars, yaml_records,
                    schema >>

\* Lines 108-124: INSERT INTO watchlist SELECT ... GROUP BY ticker.
SyncInsertSelect ==
    /\ sync_pc = "insert"
    /\ \E rows \in GroupByTicker(tmp_watchlist) :
        ExecOnWatchlist((IF txn_open THEN txn_watchlist ELSE watchlist) \cup rows)
    /\ sync_pc' = "commit"
    /\ UNCHANGED << sync_config, sync_items, tmp_watchlist, txn_open, sync_status,
                    sync_declared >>
    /\ UNCHANGED << job_vars, view_vars, out_vars, cache_vars, run_vars, yaml_records,
                    schema >>

\* Lines 125-126: COMMIT, close. COMMIT outside a transaction raises.
SyncCommit ==
    /\ sync_pc = "commit"
    /\ watchlist' = IF txn_open THEN txn_watchlist ELSE watchlist
    /\ sync_status' = IF txn_open THEN "done" ELSE "error"
    /\ ConnectionClosed
    /\ SyncReturns(IF txn_open THEN "" ELSE "TransactionException")
    /\ dash' = NoFrame
    /\ alerts_out' = NoRows
    /\ UNCHANGED sync_declared
    /\ UNCHANGED << view_vars, cache_vars, run_vars, yaml_records, schema >>

\* The run ends before COMMIT: the process is interrupted, or the statement
\* about to run raises. What the open transaction did is rolled back.
SyncAbort ==
    /\ sync_pc # "idle"
    /\ ConnectionClosed
    /\ sync_status' = "aborted"
    /\ SyncReturns("aborted")
    /\ UNCHANGED << watchlist, sync_declared >>
    /\ UNCHANGED << view_vars, out_vars, cache_vars, run_vars, yaml_records, schema >>

(***************************************************************************)
(* jobs/fetch_daily.py                                                     *)
(***************************************************************************)
\* The provider's bar of ticker t at hour ts: it opens where the bar before closed.
Quote(m, t, ts, f) ==
    IF f = "Close" \/ ts = 1 THEN m[t][ts] ELSE m[t][ts - 1]

\* A wide DataFrame: index Datetime, columns (Price, Ticker); a cell is
\* << x >>, or NaN where the provider has no bar of that ticker at that hour.
\* None is no frame.
NaN == << >>
NoneDF == [none |-> TRUE, index |-> {}, tickers |-> {}, at |-> << >>]
Frame(m, bars, T) ==
    LET hours == { b[1] : b \in bars }
    IN [none |-> FALSE, index |-> hours, tickers |-> T,
        at |-> [c \in hours \X PriceFields \X T |->
                   IF << c[1], c[3] >> \in bars
                   THEN << Quote(m, c[3], c[1], c[2]) >> ELSE NaN]]
DfEmpty(df) == df.index = {} \/ df.tickers = {}

\* yf.download(tickers, period, interval="1h"): the bars the provider has of
\* the requested tickers, any of them possibly missing. The frame has a row
\* for every hour some ticker has a bar at and the columns of every requested
\* ticker, a ticker whose download failed included.
Downloads(m, T) == { Frame(m, bars, T) : bars \in SUBSET (Times \X T) }

\* fetch_ticker, lines 49-55: None for an empty download.
fetch_ticker(download) ==
    IF download.none \/ DfEmpty(download) THEN NoneDF ELSE download

\* Lines 20-29: wide -> long rows (Datetime, Ticker, Price, Value), plus Date.
\* stack(future_stack=True) keeps the rows whose Value is NaN.
DfLong(df) ==
    { [Datetime |-> c[1], Ticker |-> c[3], Price |-> c[2], Value |-> df.at[c],
       Date |-> DateOf(c[1])] : c \in df.index \X PriceFields \X df.tickers }

\* The rows write_dataset puts into partition Ticker=t/Date=d (the partition
\* columns live in the path, not in the file). from_pandas (line 32) stores a
\* NaN as NULL.
PartitionRows(long, t, d) ==
    { [Datetime |-> r.Datetime, Price |-> r.Price, Value |-> r.Value] :
        r \in { x \in long : x.Ticker = t /\ x.Date = d } }

\* existing_data_behavior="overwrite_or_ignore" with the default
\* basename_template: a partition directory that gets rows has its
\* part-0.parquet written anew, any other existing file is ignored.
ExistingDataBehavior(old, new) == IF new # {} THEN new ELSE old

\* The (Ticker, Date) directories write_dataset writes a file into: those of
\* the long rows, NaN rows included.
WrittenPartitions(df) == { << t, DateOf(ts) >> : t \in df.tickers, ts \in df.index }

\* write_partitioned_parquet, lines 34-46: the lake once write_dataset has
\* written the files of the partitions P of the batch.
write_partitioned_parquet(df, files, P) ==
    [q \in Partitions |->
        ExistingDataBehavior(files[q],
            IF q \in P THEN PartitionRows(DfLong(df), q[1], q[2]) ELSE {})]

EmptyLake == [p \in Partitions |-> {}]
\* One market of the domain: hours alternate between the two closes.
SawtoothMarket == [t \in Tickers |-> [ts \in Times |-> IF ts % 2 = 1 THEN 95 ELSE 105]]

JobInit ==
    /\ lake = EmptyLake
    /\ job_pc = "idle"
    /\ job_df = NoneDF
    /\ job_nodata = FALSE
    /\ job_pending = {}
    /\ job_status = ""
    /\ dash = NoFrame
    /\ dash_pc = "idle"
    /\ dash_files = {}
    /\ dash_leak = FALSE
    /\ alerts_pc = "idle"
    /\ list_cache = NoCache
    /\ rows_cache = NoCache
    /\ alerts_out = NoRows
    /\ view_def = "none"
    /\ prices_cols = "none"
    /\ prices = {}
    /\ bv_pc = "idle"
    /\ bv_status = ""
    /\ bv_refreshed = {}

UnchangedSyncRun ==
    UNCHANGED << sync_pc, sync_config, sync_items, tmp_watchlist, txn_open,
                 txn_watchlist, sync_status, sync_declared >>

\* main, line 60: sync_watchlist_replace() is entered (its lines 76-77). The
\* steps of the run follow; it hands back through SyncReturns.
JobSync ==
    /\ job_pc = "idle"
    /\ SyncStart
    /\ job_pc' = IF connect("fetch_daily") THEN "sync" ELSE "idle"
    /\ job_status' = IF connect("fetch_daily") THEN "" ELSE "IOException"
    /\ job_df' = NoneDF
    /\ job_nodata' = FALSE
    /\ UNCHANGED << market, lake, job_pending >>
    /\ UNCHANGED << view_vars, out_vars, cache_vars, run_vars, yaml_records >>

\* Line 63, get_tickers lines 129-130: connect, ensure_schema.
JobGetTickers ==
    /\ job_pc = "get_tickers"
    /\ IF connect("fetch_daily")
       THEN job_pc' = "tickers" /\ UNCHANGED job_status
       ELSE job_pc' = "idle" /\ job_status' = "IOException"
    /\ schema' = (schema \/ connect("fetch_daily"))
    /\ UNCHANGED << watchlist, market, lake, job_df, job_nodata, job_pending, out_vars >>
    /\ UnchangedSyncRun
    /\ UNCHANGED << view_vars, cache_vars, run_vars, yaml_records >>

\* get_tickers lines 131-133, main lines 64-66: SELECT ticker, close; an empty
\* watchlist ends the run.
JobGotTickers ==
    /\ job_pc = "tickers"
    /\ IF TickerSet(watchlist) = {}
       THEN job_pc' = "idle" /\ job_status' = "ok"
       ELSE job_pc' = "fetch" /\ UNCHANGED job_status
    /\ UNCHANGED << watchlist, market, lake, job_df, job_nodata, job_pending, out_vars >>
    /\ UnchangedSyncRun
    /\ UNCHANGED << view_vars, cache_vars, run_vars, yaml_records, schema >>

\* Line 67: df = fetch_ticker(tickers).
JobFetch ==
    /\ job_pc = "fetch"
    /\ \E d \in Downloads(market, TickerSet(watchlist)) :
        /\ job_df' = fetch_ticker(d)
        /\ job_nodata' = job_df'.none
    /\ job_pc' = "write"
    /\ UNCHANGED << watchlist, market, lake, job_pending, job_status, out_vars >>
    /\ UnchangedSyncRun
    /\ UNCHANGED << view_vars, cache_vars, run_vars, yaml_records, schema >>

\* Line 68: write_partitioned_parquet(df, DATA_ROOT), lines 16-33. Its first
\* statement, df.empty, raises AttributeError on None; an empty frame returns;
\* any other is reshaped and handed to write_dataset.
JobWrite ==
    /\ job_pc = "write"
    /\ IF job_df.none
       THEN /\ job_pc' = "idle"
            /\ job_status' = "AttributeError"
            /\ UNCHANGED job_pending
       ELSE IF DfEmpty(job_df)
       THEN /\ job_pc' = "print"
            /\ UNCHANGED << job_pending, job_status >>
       ELSE /\ job_pc' = "write_dataset"
            /\ job_pending' = WrittenPartitions(job_df)
            /\ UNCHANGED job_status
    /\ UNCHANGED << watchlist, market, lake, job_df, job_nodata, out_vars >>
    /\ UnchangedSyncRun
    /\ UNCHANGED << view_vars, cache_vars, run_vars, yaml_records, schema >>

\* Lines 34-46: write_dataset writes one file per (Ticker, Date) directory of
\* the batch, one after the other, in no order the caller fixes; a reader
\* beside the job can find some of them and not yet the others.
JobWriteFile ==
    /\ job_pc = "write_dataset"
    /\ \E p \in job_pending :
        /\ lake' = write_partitioned_parquet(job_df, lake, {p})
        /\ job_pending' = job_pending \ {p}
    /\ job_pc' = IF job_pending' = {} THEN "print" ELSE "write_dataset"
    /\ dash' = NoFrame
    /\ alerts_out' = NoRows
    /\ UNCHANGED << watchlist, market, job_df, job_nodata, job_status >>
    /\ UnchangedSyncRun
    /\ UNCHANGED << view_vars, cache_vars, run_vars, yaml_records, schema >>

\* Line 69: print(f"[OK] {tickers}: {len(df)} rows"), and main returns.
JobPrint ==
    /\ job_pc = "print"
    /\ job_pc' = "idle"
    /\ job_status' = IF job_df.none THEN "TypeError" ELSE "ok"
    /\ UNCHANGED << watchlist, market, lake, job_df, job_nodata, job_pending, out_vars >>
    /\ UnchangedSyncRun
    /\ UNCHANGED << view_vars, cache_vars, run_vars, yaml_records, schema >>

(***************************************************************************)
(* app/dashboard.py                                                        *)
(***************************************************************************)
\* Is there any *.parquet under DATA_ROOT.
HasFiles(files) == \E p \in Partitions : files[p] # {}

\* @st.cache_data(ttl=300): a call within 300 s of the call that computed the
\* entry returns the entry and does not run the body. An entry is
\* [valid, value]; the body's exception stores nothing.
CacheGet(cache, computed) == IF cache.valid THEN cache.value ELSE computed
CachePut(cache, computed) ==
    IF cache.valid THEN cache ELSE [valid |-> TRUE, value |-> computed]

\* list_parquet_files, lines 16-18: the files under DATA_ROOT (one per
\* partition directory), as listed now or as cached.
list_parquet_files(cache, files) ==
    CacheGet(cache, { p \in Partitions : files[p] # {} })

\* read_parquet over the hive partitioned lake: the rows of every file, with
\* the partition columns Ticker and Date read from the path.
ReadParquet(files) ==
    UNION { { [Ticker |-> p[1], Date |-> p[2], Datetime |-> r.Datetime,
               Price |-> r.Price, Value |-> r.Value] : r \in files[p] } :
            p \in Partitions }

\* SQL values: a number x is << x >>, NULL is << >>. SQL truth: "T", "F", "N".
Null == << >>
Le3(a, b) == IF a = Null \/ b = Null THEN "N" ELSE IF a[1] <= b[1] THEN "T" ELSE "F"
Lt3(a, b) == IF a = Null \/ b = Null THEN "N" ELSE IF a[1] < b[1] THEN "T" ELSE "F"
And3(p, q) == IF p = "F" \/ q = "F" THEN "F" ELSE IF p = "N" \/ q = "N" THEN "N" ELSE "T"
Or3(p, q) == IF p = "T" \/ q = "T" THEN "T" ELSE IF p = "N" \/ q = "N" THEN "N" ELSE "F"
Not3(p) == IF p = "N" THEN "N" ELSE IF p = "T" THEN "F" ELSE "T"
IsNull3(a) == IF a = Null THEN "T" ELSE "F"
\* x BETWEEN lo AND hi
Between3(x, lo, hi) == And3(Le3(lo, x), Le3(x, hi))

\* ROW_NUMBER() OVER (PARTITION BY Ticker ORDER BY Datetime DESC) of row r
\* among rows.
RowNumber(rows, r) ==
    1 + Cardinality({ x \in rows : x.Ticker = r.Ticker /\ x.Datetime > r.Datetime })

\* LAG(Value) OVER (PARTITION BY Ticker ORDER BY Datetime DESC) of row r: the
\* Value of the row one place before r in that order, NULL for the first.
Lag(rows, r) ==
    LET before == { x \in rows : x.Ticker = r.Ticker
                                 /\ RowNumber(rows, x) = RowNumber(rows, r) - 1 }
    IN IF before = {} THEN Null ELSE (CHOOSE x \in before : TRUE).Value

\* CTEs ranked and latest, lines 55-67.
Ranked(price_rows) ==
    LET closes == { r \in price_rows : r.Price = "Close" }
    IN { [ticker |-> r.Ticker, datetime |-> r.Datetime, close |-> r.Value,
          prev_close |-> Lag(closes, r), rn |-> RowNumber(closes, r)] : r \in closes }
Latest(price_rows) == { r \in Ranked(price_rows) : r.rn = 1 }

\* CASE ... END AS pct_change, lines 80-83: the quotient as << numerator,
\* denominator >>, NULL without a usable previous close.
PctChange(close, prev) ==
    IF Or3(IsNull3(prev), IF prev = Null THEN "N" ELSE IF prev[1] = 0 THEN "T" ELSE "F") = "T"
    THEN Null
    ELSE IF close = Null THEN Null
    ELSE << (close[1] - prev[1]) * 100, prev[1] >>

\* CASE ... END AS zone_status, lines 84-89.
ZoneStatus(close, lo, hi) ==
    IF Between3(close, << lo >>, << hi >>) = "T" THEN "In zone"
    ELSE IF Lt3(close, << lo >>) = "T" THEN "Below"
    ELSE IF Lt3(<< hi >>, close) = "T" THEN "Above"
    ELSE "No data"

\* CASE ... END AS crossed_today, lines 90-95.
CrossedToday(close, prev, lo, hi) ==
    And3(Between3(close, << lo >>, << hi >>),
         Or3(IsNull3(prev), Not3(Between3(prev, << lo >>, << hi >>)))) = "T"

DashRow(w, close, prev, pct, status, crossed) ==
    [ticker |-> w.ticker, zone_low |-> w.zone_low, zone_high |-> w.zone_high,
     notify_on_cross |-> w.notify_on_cross, cooloff_days |-> w.cooloff_days,
     close_now |-> close, close_prev |-> prev, pct_change |-> pct,
     zone_status |-> status, crossed_today |-> crossed]

\* Lines 27-50: no parquet file.
RowsWithoutFiles(wl) ==
    { DashRow(w, Null, Null, Null, "No data", FALSE) : w \in wl }

\* Lines 52-99: FROM watchlist w LEFT JOIN latest l ON l.ticker = w.ticker.
RowsFromQuery(wl, files) ==
    LET latest == Latest(ReadParquet(files))
        joined(w) == { l \in latest : l.ticker = w.ticker }
        row(w, close, prev) ==
            DashRow(w, close, prev, PctChange(close, prev),
                    ZoneStatus(close, w.zone_low, w.zone_high),
                    CrossedToday(close, prev, w.zone_low, w.zone_high))
    IN UNION { IF joined(w) = {} THEN { row(w, Null, Null) }
               ELSE { row(w, l.close, l.prev_close) : l \in joined(w) } : w \in wl }

\* The body of load_dashboard_rows from line 27 on, given the listing of line
\* 23: what it can return. DATA_GLOB (line 11) chains two "**" segments,
\* which read_parquet refuses with an IOException on the DuckDB builds
\* jobs/build_views.py (lines 6-11) describes; a build that accepts the
\* pattern evaluates the query.
load_dashboard_rows(wl, files, parquet_files) ==
    IF parquet_files = {}
    THEN { [returned |-> TRUE, cached |-> FALSE, err |-> "",
            rows |-> RowsWithoutFiles(wl)] }
    ELSE { [returned |-> TRUE, cached |-> FALSE, err |-> "IOException", rows |-> {}],
           [returned |-> TRUE, cached |-> FALSE, err |-> "",
            rows |-> RowsFromQuery(wl, files)] }

\* The dashboard refreshes (main, line 239): a call of load_dashboard_rows.
\* With a cached frame the call returns it, whatever the tables hold now;
\* else the body starts, lines 23-25: the listing (cached if there is one),
\* connect, ensure_schema.
DashRefresh ==
    /\ dash_pc = "idle"
    /\ IF rows_cache.valid
       THEN /\ dash' = [returned |-> TRUE, cached |-> TRUE, err |-> "",
                        rows |-> rows_cache.value]
            /\ UNCHANGED << cache_vars, dash_pc, dash_files >>
       ELSE LET parquet_files == list_parquet_files(list_cache, lake)
            IN /\ list_cache' = CachePut(list_cache, parquet_files)
               /\ UNCHANGED rows_cache
               /\ IF connect("dashboard")
                  THEN /\ dash_pc' = "query"
                       /\ dash_files' = parquet_files
                       /\ UNCHANGED dash
                  ELSE /\ dash' = [returned |-> TRUE, cached |-> FALSE,
                                   err |-> "IOException", rows |-> {}]
                       /\ UNCHANGED << dash_pc, dash_files >>
    /\ schema' = (schema \/ (~rows_cache.valid /\ connect("dashboard")))
    /\ UNCHANGED << sync_vars, job_vars, view_vars, alerts_out, dash_leak, alerts_pc,
                    yaml_records >>

\* Lines 27-104: the query of the branch the listing selects, con.close(), and
\* the frame is cached. An exception of the query leaves the function before
\* con.close() (line 102): the connection stays open until it is collected.
DashQuery ==
    /\ dash_pc = "query"
    /\ \E res \in load_dashboard_rows(watchlist, lake, dash_files) :
        /\ dash' = res
        /\ rows_cache' = IF res.err = "" THEN CachePut(rows_cache, res.rows)
                         ELSE rows_cache
        /\ dash_leak' = (dash_leak \/ res.err # "")
    /\ dash_pc' = "idle"
    /\ dash_files' = {}
    /\ UNCHANGED << sync_vars, job_vars, view_vars, alerts_out, list_cache, alerts_pc,
                    yaml_records, schema >>

\* The connection an exception left open is collected, and closed by that.
DashRelease ==
    /\ dash_leak
    /\ dash_leak' = FALSE
    /\ UNCHANGED << sync_vars, job_vars, view_vars, out_vars, cache_vars, dash_pc,
                    dash_files, alerts_pc, yaml_records, schema >>

\* show_price_history_section, line 221, which main reaches with a frame that
\* has tickers: a call of load_price_history that is not cached runs lines
\* 109-121: the listing (cached if there is one), and with files, connect.
DashPriceHistory ==
    /\ dash_pc = "idle"
    /\ rows_cache.valid
    /\ rows_cache.value # {}
    /\ LET parquet_files == list_parquet_files(list_cache, lake)
       IN /\ list_cache' = CachePut(list_cache, parquet_files)
          /\ dash_pc' = IF parquet_files # {} /\ connect("dashboard")
                        THEN "history" ELSE "idle"
    /\ UNCHANGED << sync_vars, job_vars, view_vars, out_vars, rows_cache, dash_files,
                    dash_leak, alerts_pc, yaml_records, schema >>

\* Lines 122-125 of load_price_history: the query, and con.close() in finally.
DashHistoryQuery ==
    /\ dash_pc = "history"
    /\ dash_pc' = "idle"
    /\ UNCHANGED << sync_vars, job_vars, view_vars, out_vars, cache_vars, dash_files,
                    dash_leak, alerts_pc, yaml_records, schema >>

\* ttl=300: the entry of list_parquet_files is 300 s old.
ListCacheExpire ==
    /\ list_cache.valid
    /\ list_cache' = NoCache
    /\ UNCHANGED << sync_vars, job_vars, view_vars, out_vars, rows_cache, run_vars,
                    yaml_records, schema >>

\* ttl=300: the entry of load_dashboard_rows is 300 s old.
RowsCacheExpire ==
    /\ rows_cache.valid
    /\ rows_cache' = NoCache
    /\ UNCHANGED << sync_vars, job_vars, view_vars, out_vars, list_cache, run_vars,
                    yaml_records, schema >>

(***************************************************************************)
(* jobs/build_views.py                                                     *)
(***************************************************************************)
\* SELECT * FROM v_prices, now: a view reads the lake when it is queried.
\* Over parquet files its columns are Ticker, Date, Datetime, Price, Value;
\* the empty view has the columns ticker, date, close and no row.
ViewRows(def, files) == IF def = "parquet" THEN ReadParquet(files) ELSE {}
ViewCols(def) == IF def = "parquet" THEN "lake" ELSE "fixed"

\* Lines 21-42: connect, _parquet_files, CREATE OR REPLACE VIEW v_prices.
\* The connection stays open to line 53.
BvCreateView ==
    /\ bv_pc = "idle"
    /\ IF connect("build_views")
       THEN /\ view_def' = IF HasFiles(lake) THEN "parquet" ELSE "empty"
            /\ bv_pc' = "create_table"
            /\ bv_status' = ""
            /\ alerts_out' = NoRows
       ELSE /\ bv_status' = "IOException"
            /\ UNCHANGED << view_def, bv_pc, alerts_out >>
    /\ UNCHANGED << prices_cols, prices, bv_refreshed, sync_vars, job_vars, dash,
                    cache_vars, run_vars, yaml_records, schema >>

\* Line 47: CREATE TABLE IF NOT EXISTS prices AS SELECT * FROM v_prices WHERE 1=0.
BvCreateTable ==
    /\ bv_pc = "create_table"
    /\ prices_cols' = IF prices_cols = "none" THEN ViewCols(view_def) ELSE prices_cols
    /\ bv_pc' = "delete"
    /\ UNCHANGED << view_def, prices, bv_status, bv_refreshed, sync_vars, job_vars,
                    out_vars, cache_vars, run_vars, yaml_records, schema >>

\* Line 48: DELETE FROM prices. No transaction is open: the statement is
\* committed as it completes.
BvDelete ==
    /\ bv_pc = "delete"
    /\ prices' = {}
    /\ bv_pc' = "insert"
    /\ UNCHANGED << view_def, prices_cols, bv_status, bv_refreshed, sync_vars,
                    job_vars, out_vars, cache_vars, run_vars, yaml_records, schema >>

\* Line 49: INSERT INTO prices SELECT * FROM v_prices. The binder refuses a
\* SELECT whose column count is not the table's, and main ends there.
BvInsert ==
    /\ bv_pc = "insert"
    /\ IF prices_cols = ViewCols(view_def)
       THEN /\ prices' = ViewRows(view_def, lake)
            /\ bv_refreshed' = ViewRows(view_def, lake)
            /\ bv_pc' = "index"
            /\ UNCHANGED bv_status
       ELSE /\ bv_pc' = "idle"
            /\ bv_status' = "BinderException"
            /\ UNCHANGED << prices, bv_refreshed >>
    /\ UNCHANGED << view_def, prices_cols, sync_vars, job_vars, out_vars, cache_vars,
                    run_vars, yaml_records, schema >>

\* Lines 52-54: CREATE INDEX IF NOT EXISTS idx_prices, close, print.
BvIndex ==
    /\ bv_pc = "index"
    /\ bv_pc' = "idle"
    /\ bv_status' = "ok"
    /\ UNCHANGED << view_def, prices_cols, prices, bv_refreshed, sync_vars, job_vars,
                    out_vars, cache_vars, run_vars, yaml_records, schema >>

\* The run is interrupted: what its statements committed stays, and the
\* connection is gone with the process.
BvInterrupt ==
    /\ bv_pc # "idle"
    /\ bv_pc' = "idle"
    /\ bv_status' = "interrupted"
    /\ UNCHANGED << view_def, prices_cols, prices, bv_refreshed, sync_vars, job_vars,
                    out_vars, cache_vars, run_vars, yaml_records, schema >>

(***************************************************************************)
(* app/alerts.py                                                           *)
(***************************************************************************)
\* ROW_NUMBER() OVER (PARTITION BY ticker ORDER BY date DESC) of row r.
RowNumberByDate(rows, r) ==
    1 + Cardinality({ x \in rows : x.ticker = r.ticker /\ x.date > r.date })

\* SQL, lines 4-20, over rows (ticker, date, close) of v_prices and the
\* watchlist: the reported rows.
AlertsSQL(v, wl) ==
    LET last2 == { [ticker |-> r.ticker, close |-> r.close,
                    rn |-> RowNumberByDate(v, r)] : r \in v }
        now_yday ==
            { [ticker |-> j[1].ticker, close_now |-> j[1].close,
               close_prev |-> j[2].close,
               zone_low |-> j[3].zone_low, zone_high |-> j[3].zone_high] :
                j \in { k \in last2 \X last2 \X wl :
                          /\ k[1].ticker = k[2].ticker /\ k[2].rn = 2
                          /\ k[3].ticker = k[1].ticker
                          /\ k[1].rn = 1 /\ k[3].notify_on_cross } }
    IN { r \in now_yday :
            And3(Between3(r.close_now, << r.zone_low >>, << r.zone_high >>),
                 Not3(Between3(r.close_prev, << r.zone_low >>, << r.zone_high >>)))
                = "T" }

\* alerts.main, line 24: connect, which raises while another process has the
\* database open.
AlertsConnect ==
    /\ alerts_pc = "idle"
    /\ IF connect("alerts")
       THEN /\ alerts_pc' = "query"
            /\ UNCHANGED alerts_out
       ELSE /\ alerts_out' = [returned |-> TRUE, err |-> "IOException", rows |-> {}]
            /\ UNCHANGED alerts_pc
    /\ UNCHANGED << sync_vars, job_vars, view_vars, dash, cache_vars, dash_pc,
                    dash_files, dash_leak, yaml_records, schema >>

\* Lines 25-30: con.execute(SQL), and con.close() in finally; main never
\* calls ensure_schema. The query names columns ticker, date and close of
\* v_prices, then table watchlist: without the view the catalog refuses it,
\* over the parquet view (which has no column close) the binder does, and
\* over the empty view the catalog does where table watchlist is missing.
AlertsQuery ==
    /\ alerts_pc = "query"
    /\ alerts_out' =
         IF view_def = "none"
         THEN [returned |-> TRUE, err |-> "CatalogException", rows |-> {}]
         ELSE IF view_def = "parquet"
         THEN [returned |-> TRUE, err |-> "BinderException", rows |-> {}]
         ELSE IF ~schema
         THEN [returned |-> TRUE, err |-> "CatalogException", rows |-> {}]
         ELSE [returned |-> TRUE, err |-> "",
               rows |-> AlertsSQL(ViewRows(view_def, lake), watchlist)]
    /\ alerts_pc' = "idle"
    /\ UNCHANGED << sync_vars, job_vars, view_vars, dash, cache_vars, dash_pc,
                    dash_files, dash_leak, yaml_records, schema >>

Next ==
    \/ SyncConnect
    \/ SyncLoad
    \/ SyncCreateTemp
    \/ SyncInsertTmp
    \/ SyncBegin
    \/ SyncDelete
    \/ SyncInsertSelect
    \/ SyncCommit
    \/ SyncAbort

Init == SyncInit /\ JobInit /\ market = SawtoothMarket /\ yaml_records = RawRecords

Spec == Init /\ [][Next]_vars

\* Records that notify.
NotifyingRecords == { r \in FullRecords : r.notify_on_cross }

\* The fetch job, run after run, the YAML file edited among the
\* configurations of notifying records and of a record without ticker.
FetchInit ==
    /\ SyncInit
    /\ JobInit
    /\ market = SawtoothMarket
    /\ yaml_records = NotifyingRecords \cup {NoTickerRecord}

JobNext ==
    \/ JobSync
    \/ SyncLoad
    \/ SyncCreateTemp
    \/ SyncInsertTmp
    \/ SyncBegin
    \/ SyncDelete
    \/ SyncInsertSelect
    \/ SyncCommit
    \/ SyncAbort
    \/ JobGetTickers
    \/ JobGotTickers
    \/ JobFetch
    \/ JobWrite
    \/ JobWriteFile
    \/ JobPrint

SpecJob == FetchInit /\ [][JobNext]_vars

\* The dashboard beside the fetch job: ticker A closes below the zone
\* [100, 110] in its first hour and at 105 from then on, ticker B follows
\* the sawtooth; the YAML file is edited among the configurations that
\* declare ticker A, notifying, with the zone bounds 100 and 110 or 100 and 90.
RisingMarket ==
    [t \in Tickers |->
        [ts \in Times |-> IF t = "A" /\ ts > 1 THEN 105 ELSE SawtoothMarket[t][ts]]]
DashInit ==
    /\ SyncInit
    /\ JobInit
    /\ market = RisingMarket
    /\ yaml_records = { r \in NotifyingRecords : r.ticker = "A" }

DashNext ==
    \/ JobSync
    \/ SyncLoad
    \/ SyncCreateTemp
    \/ SyncInsertTmp
    \/ SyncBegin
    \/ SyncDelete
    \/ SyncInsertSelect
    \/ SyncCommit
    \/ SyncAbort
    \/ JobGetTickers
    \/ JobGotTickers
    \/ JobFetch
    \/ JobWrite
    \/ JobWriteFile
    \/ JobPrint
    \/ DashRefresh
    \/ DashQuery
    \/ DashRelease
    \/ DashPriceHistory
    \/ DashHistoryQuery
    \/ ListCacheExpire
    \/ RowsCacheExpire

SpecDash == DashInit /\ [][DashNext]_vars

\* The view builder and the alerting query beside the fetch job; the YAML
\* file is edited among the configurations that declare ticker A with the
\* zone [100, 110], notifying or not.
ViewsInit ==
    /\ SyncInit
    /\ JobInit
    /\ market = SawtoothMarket
    /\ yaml_records = { r \in FullRecords : r.ticker = "A" /\ r.zone_high.v = 110 }

ViewsNext ==
    \/ JobSync
    \/ SyncLoad
    \/ SyncCreateTemp
    \/ SyncInsertTmp
    \/ SyncBegin
    \/ SyncDelete
    \/ SyncInsertSelect
    \/ SyncCommit
    \/ SyncAbort
    \/ JobGetTickers
    \/ JobGotTickers
    \/ JobFetch
    \/ JobWrite
    \/ JobWriteFile
    \/ JobPrint
    \/ BvCreateView
    \/ BvCreateTable
    \/ BvDelete
    \/ BvInsert
    \/ BvIndex
    \/ BvInterrupt
    \/ AlertsConnect
    \/ AlertsQuery

SpecViews == ViewsInit /\ [][ViewsNext]_vars

(***************************************************************************)
(* Claims on the watchlist reconciler.                                     *)
(***************************************************************************)
\* C1: after a completed sync_watchlist_replace run the persisted tickers are
\* exactly the distinct tickers the run's configuration declared, one row per
\* ticker (so a ticker of an earlier run that is no longer declared is gone).
C1_ExactMatch ==
    sync_status = "done" =>
        /\ TickerSet(watchlist) = sync_declared
        /\ Cardinality(watchlist) = Cardinality(sync_declared)

\* A completed run that declared only B (with duplicates or not) while the
\* table is non-empty.
C1_Witness ==
    /\ sync_status = "done"
    /\ sync_declared = {"B"}
    /\ watchlist # {}

\* C2: the committed watchlist changes in no step but the COMMIT of a run
\* that reached it, and then to the complete new table; every other step,
\* an interruption or a failed statement included, leaves the previous
\* table in place.
C2_AtomicReplace ==
    [][ \/ watchlist' = watchlist
        \/ /\ sync_pc = "commit"
           /\ sync_status' = "done"
           /\ watchlist' \in GroupByTicker(sync_items)
      ]_vars

\* Between DELETE and the INSERT: the run's transaction has emptied the
\* table, and a reader still sees the previous, non-empty one.
C2_Witness ==
    /\ sync_pc = "insert"
    /\ txn_open
    /\ txn_watchlist = {}
    /\ watchlist # {}

\* The claim's words for a missing or malformed configuration source.
Malformed(cfg) ==
    \/ ~cfg.exists
    \/ \E i \in DOMAIN cfg.watchlist :
        LET r == cfg.watchlist[i]
        IN \/ "ticker" \notin DOMAIN r
           \/ r.zone_low.kind # "num"
           \/ r.zone_high.kind # "num"

\* C3: on a missing or malformed configuration source the loading step ends
\* the run with an error and leaves the persisted rows as they were (a run
\* interrupted before the step ends there as well, rows untouched).
C3_BadConfigUntouched ==
    [][ (sync_pc = "load" /\ Malformed(sync_config)) =>
            /\ sync_status' = "error" \/ sync_status' = "aborted"
            /\ sync_pc' = "idle"
            /\ watchlist' = watchlist
      ]_vars

\* A run failed on its configuration while rows were persisted.
C3_Witness ==
    /\ sync_status = "error"
    /\ watchlist # {}

(***************************************************************************)
(* Claims on the zone analytics query.                                     *)
(***************************************************************************)
\* The Close observations the lake holds for ticker t.
CloseObs(files, t) ==
    { r \in ReadParquet(files) : r.Ticker = t /\ r.Price = "Close" /\ r.Value # NaN }
\* The latest observed Close of t by datetime, and the second latest.
CloseNow(files, t) ==
    LET obs == CloseObs(files, t)
    IN IF obs = {} THEN Null
       ELSE (CHOOSE r \in obs : \A x \in obs : x.Datetime <= r.Datetime).Value
ClosePrev(files, t) ==
    LET obs == CloseObs(files, t)
        older == { r \in obs : \E x \in obs : x.Datetime > r.Datetime }
    IN IF older = {} THEN Null
       ELSE (CHOOSE r \in older : \A x \in older : x.Datetime <= r.Datetime).Value
InZone(x, lo, hi) == x # Null /\ lo <= x[1] /\ x[1] <= hi

\* C4: in the rows a refresh returns, crossed_today is true iff close_now is
\* in the zone and close_prev is null or not in the zone, close_now and
\* close_prev being the latest and second latest observed Close.
C4_CrossedToday ==
    (dash.returned /\ dash.err = "") =>
        \A r \in dash.rows :
            r.crossed_today =
                /\ InZone(CloseNow(lake, r.ticker), r.zone_low, r.zone_high)
                /\ \/ ClosePrev(lake, r.ticker) = Null
                   \/ ~InZone(ClosePrev(lake, r.ticker), r.zone_low, r.zone_high)

\* C5: a refresh returns exactly one row per persisted instrument; the row
\* says 'No data' iff the instrument has no Close observation (and then its
\* close_now, close_prev and pct_change are null), else 'In zone' iff
\* zone_low <= close_now <= zone_high, 'Below' iff close_now < zone_low,
\* 'Above' iff close_now > zone_high; with or without partition files.
C5_ZoneStatus ==
    dash.returned =>
        /\ dash.err = ""
        /\ TickerSet(dash.rows) = TickerSet(watchlist)
        /\ Cardinality(dash.rows) = Cardinality(watchlist)
        /\ \A r \in dash.rows :
            LET now == CloseNow(lake, r.ticker)
            IN /\ (r.zone_status = "No data") = (now = Null)
               /\ now = Null =>
                    r.close_now = Null /\ r.close_prev = Null /\ r.pct_change = Null
               /\ now # Null =>
                    /\ (r.zone_status = "In zone") =
                            (r.zone_low <= now[1] /\ now[1] <= r.zone_high)
                    /\ (r.zone_status = "Below") = (now[1] < r.zone_low)
                    /\ (r.zone_status = "Above") = (now[1] > r.zone_high)

(***************************************************************************)
(* Claims on the price lake writer and the fetch job.                      *)
(***************************************************************************)
\* C6: the rows stored in a (ticker, date) partition are append-only: no
\* write removes or replaces an observation an earlier run stored there.
C6_AppendOnly ==
    [][ \A p \in Partitions : lake[p] \subseteq lake'[p] ]_vars

\* The set T of the claim: the (ticker, date) pairs the batch has an
\* observation for, that is, a cell with a value.
Touched(df) ==
    { << c[3], DateOf(c[1]) >> : c \in { x \in DOMAIN df.at : df.at[x] # NaN } }

\* C7: a write of a batch leaves every existing partition file unchanged
\* whose (ticker, date) the batch has no observation for.
C7_PartitionIndependence ==
    [][ (job_pc = "write" \/ job_pc = "write_dataset") =>
            \A p \in Partitions \ Touched(job_df) :
                lake[p] # {} => lake'[p] = lake[p] ]_vars

\* C8: a run of the job whose fetch gave the "no data" signal ends without
\* an error (and writes nothing).
C8_NoDataIsNoOp ==
    (job_pc = "idle" /\ job_nodata) => job_status = "ok"

(***************************************************************************)
(* Claims on the view builder and the alerting query.                      *)
(***************************************************************************)
\* C9: the clear and reload of table prices is one unit of work: whenever no
\* refresh is running, an interrupted or failed one included, the table
\* holds exactly the rows of v_prices the last completed reload read.
C9_RefreshIsAtomic ==
    bv_pc = "idle" => prices = bv_refreshed

\* The daily closes of ticker t: per calendar date the Close of its latest hour.
CloseDays(files, t) == { r.Date : r \in CloseObs(files, t) }
DailyClose(files, t, d) ==
    LET obs == { r \in CloseObs(files, t) : r.Date = d }
    IN (CHOOSE r \in obs : \A x \in obs : x.Datetime <= r.Datetime).Value
DailyNow(files, t) ==
    LET days == CloseDays(files, t)
    IN IF days = {} THEN Null ELSE DailyClose(files, t, Max(days))
DailyPrev(files, t) ==
    LET days == CloseDays(files, t)
    IN IF Cardinality(days) < 2 THEN Null
       ELSE DailyClose(files, t, Max(days \ {Max(days)}))
\* v_prices is defined as build_views.main defines it over the lake as it is.
ViewIsCurrent == view_def = IF HasFiles(lake) THEN "parquet" ELSE "empty"

\* C10: the alerting query reports an instrument iff its notify_on_cross is
\* true and, on its latest two daily closes, close_now is in the zone and
\* close_prev is null or not in the zone.
C10_AlertsCrossing ==
    (alerts_out.returned /\ ViewIsCurrent) =>
        \A w \in watchlist :
            (w.ticker \in TickerSet(alerts_out.rows)) =
                /\ w.notify_on_cross
                /\ InZone(DailyNow(lake, w.ticker), w.zone_low, w.zone_high)
                /\ \/ DailyPrev(lake, w.ticker) = Null
                   \/ ~InZone(DailyPrev(lake, w.ticker), w.zone_low, w.zone_high)
====
